---- MODULE Spec2Model ----
(***************************************************************************)
(* A model of the rotating log writer of coder-van/v-util, package log:    *)
(* RotateHandler (file_rotate.go) with its MuxWriter sink, the rotation    *)
(* protocol DoRotate and the detached retention sweep deleteOldLog.        *)
(*                                                                         *)
(* The file system is a sequence of files (inodes); a file keeps its       *)
(* content while a descriptor is open on it even after its name is gone.   *)
(* Bytes are integers: 10 is "\n", 96 + t is the letter thread t writes,    *)
(* 120 and 121 are the letters of what an earlier run left in the log.     *)
(* Time is in seconds; day 0 is 1 January of a 365-day year.               *)
(***************************************************************************)
EXTENDS Integers, Sequences, FiniteSets, TLC

\* ------------------------------------------------------------------ bounds
NThreads == 2      \* concurrent callers of Write
MaxWrites == 3     \* Write calls in one behaviour
LinesArg == 2      \* the argument of NewLinesRotateHandler
SizeArg == 3       \* the argument of NewSizeRotateHandler
StartDay == 45     \* the day the handler is constructed (45 = 15 February)
MaxSecs == 1       \* seconds the clock may advance within one day
MaxFaults == 1     \* renames the operating system may refuse
BurstSize == 2     \* the threshold of the handler that takes one write of each thread
MaxLookups == 3    \* GetLogger calls in one behaviour
MaxCloses == 1     \* Close and Flush calls in one behaviour

\* ------------------------------------------------------- program constants
MaxNum == 999                  \* DoRotate: num <= 999
SecPerDay == 60 * 60 * 24      \* deleteOldLog: 60*60*24*w.MaxDays
WeekDays == 7                  \* New: NewDailyRotateHandler(fp, 7)
MonthDays == 30                \* New: NewDailyRotateHandler(fp, 30)
NL == 10                       \* the separator "\n" of initLogFile

Threads == 1 .. NThreads

\* ---------------------------------------------------------------- calendar
MonthLen == <<31, 28, 31, 30, 31, 30, 31, 31, 30, 31, 30, 31>>

RECURSIVE DaysBefore(_)
DaysBefore(m) == IF m <= 1 THEN 0 ELSE DaysBefore(m - 1) + MonthLen[m - 1]

MonthOf(d) ==
    CHOOSE m \in 1 .. 12 : DaysBefore(m) <= d % 365 /\ d % 365 < DaysBefore(m) + MonthLen[m]

\* time.Now().Day(): the day of the month, 1..31
DayOfMonth(t) ==
    LET d == t \div SecPerDay IN (d % 365) - DaysBefore(MonthOf(d)) + 1

\* time.Now().Format("2006-01-02"): year, month, day
DateOf(t) ==
    LET d == t \div SecPerDay IN <<d \div 365, MonthOf(d), DayOfMonth(t)>>

\* ------------------------------------------------------------------- names
\* app.log, app.log.<date>.<NNN>, a directory app.log.old, and zzz.txt, a file
\* of another program whose name does not start with app.log.
Name(kind, date, num) == [kind |-> kind, date |-> date, num |-> num]
NoDate == <<0, 0, 0>>
FilePath == Name("live", NoDate, 0)
RotName(date, num) == Name("rot", date, num)
SubDirName == Name("subdir", NoDate, 0)
OtherName == Name("other", NoDate, 0)
Unlinked == Name("unlinked", NoDate, 0)

\* strings.HasPrefix(filepath.Base(path), filepath.Base(w.FilePath))
HasPrefix(n) == n.kind \in {"live", "rot", "subdir"}

\* the lexical order filepath.Walk visits the entries of a directory in:
\* app.log < app.log.<digits...> < app.log.old < zzz.txt
KindRank(n) ==
    CASE n.kind = "live" -> 0
      [] n.kind = "rot" -> 1
      [] n.kind = "subdir" -> 2
      [] OTHER -> 3

NameLess(a, b) ==
    LET ka == <<KindRank(a), a.date[1], a.date[2], a.date[3], a.num>>
        kb == <<KindRank(b), b.date[1], b.date[2], b.date[3], b.num>>
    IN \E i \in 1 .. 5 : ka[i] < kb[i] /\ \A j \in 1 .. (i - 1) : ka[j] = kb[j]

\* ------------------------------------------------------------- file system
File(name, content, mtime, isDir) ==
    [name |-> name, content |-> content, mtime |-> mtime, isDir |-> isDir]

DirNames(fs) == {fs[i].name : i \in DOMAIN fs} \ {Unlinked}
Exists(fs, n) == n \in DirNames(fs)
Ino(fs, n) == CHOOSE i \in DOMAIN fs : fs[i].name = n

\* os.OpenFile(path, O_WRONLY|O_APPEND|O_CREATE): the file system afterwards
CreateFile(fs, n, t) ==
    IF Exists(fs, n) THEN fs ELSE Append(fs, File(n, <<>>, t, FALSE))

\* os.Rename(old, new): new is replaced when it exists
RenameFile(fs, old, new) ==
    [i \in DOMAIN fs |->
        IF fs[i].name = new THEN [fs[i] EXCEPT !.name = Unlinked]
        ELSE IF fs[i].name = old THEN [fs[i] EXCEPT !.name = new]
        ELSE fs[i]]

\* os.Remove(path)
RemoveFile(fs, n) ==
    [i \in DOMAIN fs |-> IF fs[i].name = n THEN [fs[i] EXCEPT !.name = Unlinked] ELSE fs[i]]

\* what the kernel does with a file that has no name left and that the
\* descriptor fd does not hold open: its content is gone
Reclaim(fs, fd) ==
    [i \in DOMAIN fs |->
        IF fs[i].name = Unlinked /\ ~(fd.open /\ fd.ino = i)
        THEN File(Unlinked, <<>>, 0, FALSE)
        ELSE fs[i]]

\* ----------------------------------------------------------------- strings
\* strings.Split(s, sep) for a one-byte separator: the pieces between separators
RECURSIVE Split(_, _)
Split(s, sep) ==
    IF \A i \in 1 .. Len(s) : s[i] # sep THEN <<s>>
    ELSE LET k == CHOOSE i \in 1 .. Len(s) :
                      s[i] = sep /\ \A j \in 1 .. (i - 1) : s[j] # sep
         IN <<SubSeq(s, 1, k - 1)>> \o Split(SubSeq(s, k + 1, Len(s)), sep)

\* the number of separators in s
RECURSIVE CountSep(_, _)
CountSep(s, sep) ==
    IF s = <<>> THEN 0
    ELSE (IF Head(s) = sep THEN 1 ELSE 0) + CountSep(Tail(s), sep)

\* ------------------------------------------------------------------- state
VARIABLES
    Rotatable, MaxLines, MaxSize, MaxDays,  \* RotateHandler's configuration
    curLines, curSize, openDate,            \* RotateHandler's counters
    logFile,      \* MuxWriter.logFile: the inode it is on and whether it is open
    startLock,    \* RotateHandler.startLock: 0, or the thread that holds it
    mwLock,       \* MuxWriter's mutex: 0, or the thread that holds it
    files,        \* the file system
    now,          \* the clock, in seconds
    th,           \* each thread's position in Write and its locals
    sweeps,       \* the deleteOldLog goroutines launched so far
    stderr,       \* the number of messages DoRotate's failures put on os.Stderr
    faults,       \* the number of renames the operating system has refused
    \* history, read by the properties only
    since,        \* the number of Write calls since the live file was opened
    seed,         \* what initLogFile seeded when the live file was opened
    lastDay,      \* the date of the latest Write call (of construction before any)
    rotated,      \* the names the rotations have renamed the live file to, in order
    \* Close and Flush
    closer,       \* the thread that calls Close and Flush: its position, the
                  \* descriptor it has read, and whether Close has returned
    \* the registry of log.go
    mu,           \* manager.mu: 0, or the caller that holds it
    baseDir,      \* manager.baseDir
    storing,      \* the directory a SetLogDir call is writing to baseDir, or NoDir
    loggers,      \* manager.loggers: name -> the engine cached under it
    engines,      \* the engines New has constructed, in order
    gl            \* each caller's position in GetLogger, its arguments and result

registry == <<mu, baseDir, storing, loggers, engines, gl>>
config == <<Rotatable, MaxLines, MaxSize, MaxDays>>
counters == <<curLines, curSize, openDate>>
ghosts == <<since, seed, lastDay, rotated>>
vars == <<config, counters, logFile, startLock, mwLock, files, now, th, sweeps,
          stderr, faults, ghosts, closer, registry>>

T0 == StartDay * SecPerDay

\* the instants the clock visits: the first seconds after construction, the
\* next day, and the same day of the next month
DayJumps == {1, MonthLen[MonthOf(StartDay)]}
Instants == {T0 + s : s \in 0 .. MaxSecs} \cup {T0 + d * SecPerDay : d \in DayJumps}

\* what a Write call of thread t is given: its letter and a separator, as
\* log.Logger ends every message
DataSet(t) == {<<96 + t, NL>>}

\* ------------------------------------------------------------ construction
\* the constructors: the fields <<Rotatable, MaxLines, MaxSize, MaxDays>> they set
NewDefaultHandler == <<FALSE, 0, 0, 0>>
NewDailyRotateHandler(days) == <<TRUE, 0, 0, days>>
NewLinesRotateHandler(lines) == <<TRUE, lines, 0, 0>>
NewSizeRotateHandler(size) == <<TRUE, 0, size, 0>>

\* New's switch on mode, with small thresholds in place of 1000000 lines and
\* 1 << 24 bytes
Modes == {"none", "week", "month", "lines", "size"}
New(mode) ==
    CASE mode = "week" -> NewDailyRotateHandler(WeekDays)
      [] mode = "month" -> NewDailyRotateHandler(MonthDays)
      [] mode = "lines" -> NewLinesRotateHandler(LinesArg)
      [] mode = "size" -> NewSizeRotateHandler(SizeArg)
      [] OTHER -> NewDefaultHandler

\* the directory before the handler is constructed: empty; or a log written by an
\* earlier run beside rotated logs 1, 10 and 40 days old, a directory and a file
\* of another program; or a log whose last line has no separator yet
AgedRot(days) ==
    File(RotName(DateOf(T0 - days * SecPerDay), 1), <<120, NL>>, T0 - days * SecPerDay, FALSE)
InitialDirs ==
    { <<>>,
      << File(FilePath, <<120, NL>>, T0 - 1, FALSE),
         AgedRot(1), AgedRot(10), AgedRot(40),
         File(SubDirName, <<>>, T0 - 40 * SecPerDay, TRUE),
         File(OtherName, <<120, NL>>, T0 - 40 * SecPerDay, FALSE) >>,
      << File(FilePath, <<120, NL, 121>>, T0 - 1, FALSE) >> }

\* initLogFile's seeds for a file of this content: <<curSize, curLines>>
SeedLines(content) ==
    IF Len(content) > 0 THEN Len(Split(content, NL)) ELSE 0

\* a thread outside Write. pc: where it is; data: Write's argument; fname: the
\* name DoRotate chose; err: what its latest Write returned. For the properties:
\* rot, what became of the rotation in this call; k, the number of this call
\* among those since the live file was opened empty (0 when it was not empty);
\* ino, the file that was open when doCheckRotate returned; cross, whether this
\* write took curSize from below MaxSize to MaxSize or more; n, the calls returned.
Idle == [pc |-> "idle", data |-> <<>>, fname |-> Unlinked, rot |-> "none",
         k |-> 0, ino |-> 0, cross |-> FALSE, err |-> "none", n |-> 0]

RECURSIVE SumOver(_, _)
SumOver(S, f) ==
    IF S = {} THEN 0
    ELSE LET x == CHOOSE y \in S : TRUE IN f[x] + SumOver(S \ {x}, f)

\* the handler h after Init() in a directory that holds dir: createLogFile
\* opens the live file (creating it when absent), initLogFile seeds the counters
InitWith(h, dir) ==
    LET fs == CreateFile(dir, FilePath, T0)
        i == Ino(fs, FilePath)
    IN /\ Rotatable = h[1]
       /\ MaxLines = h[2]
       /\ MaxSize = h[3]
       /\ MaxDays = h[4]
       /\ files = fs
       /\ logFile = [ino |-> i, open |-> TRUE]
       /\ curSize = Len(fs[i].content)
       /\ openDate = DayOfMonth(T0)
       /\ curLines = SeedLines(fs[i].content)
       /\ seed = [lines |-> SeedLines(fs[i].content), size |-> Len(fs[i].content)]
       /\ lastDay = DateOf(T0)
       /\ rotated = <<>>
       /\ now = T0
       /\ startLock = 0
       /\ mwLock = 0
       /\ th = [t \in Threads |-> Idle]
       /\ sweeps = <<>>
       /\ stderr = 0
       /\ faults = 0
       /\ since = 0

\* ---------------------------------------------------------------- registry
\* the handler's own state
engine == <<config, counters, logFile, startLock, mwLock, files, now, th, sweeps,
            stderr, faults, ghosts>>

\* directories: the arguments of SetLogDir, those of them os.Stat finds, and what
\* a read of baseDir may see besides the old and the new value while an unlocked
\* SetLogDir is storing it
NoDir == "none"
LogDirs == {"./", "logs", "missing"}
ExistingDirs == {"./", "logs"}
TornDir == "torn"

\* names as character codes: "app", "App" and "db"
LoggerNames == {<<97, 112, 112>>, <<65, 112, 112>>, <<100, 98>>}
\* strings.ToLower
ToLower(name) ==
    [i \in DOMAIN name |-> IF name[i] \in 65 .. 90 THEN name[i] + 32 ELSE name[i]]
\* ".log"
LogSuffix == <<46, 108, 111, 103>>
\* filepath.Join(dir, base)
Join(dir, base) == [dir |-> dir, base |-> base]

\* a caller outside GetLogger: got is the engine its latest call returned
\* (0: none yet), n the calls it has returned from
GlIdle == [pc |-> "idle", name |-> <<>>, mode |-> "none", got |-> 0, n |-> 0]

\* the package variable bose, nobody inside GetLogger or SetLogDir
NewManager ==
    /\ mu = 0
    /\ baseDir = "./"
    /\ storing = NoDir
    /\ loggers = [name \in LoggerNames |-> 0]
    /\ engines = <<>>
    /\ gl = [c \in Threads |-> GlIdle]

\* nobody inside Close or Flush, Close never called. fd: the descriptor read;
\* n: the calls made; for the properties: closed, whether Close has returned,
\* and inside, the threads that were inside Write when it did
NoCloser == [pc |-> "idle", fd |-> 0, closed |-> FALSE, inside |-> {}, n |-> 0]

Init ==
    /\ \E mode \in Modes : \E dir \in InitialDirs : InitWith(New(mode), dir)
    /\ closer = NoCloser
    /\ NewManager

\* ------------------------------------------------------------------- Write
\* doCheckRotate's condition, read under startLock
NeedRotate ==
    Rotatable /\ ( (MaxLines > 0 /\ curLines >= MaxLines)
                   \/ (MaxSize > 0 /\ curSize >= MaxSize)
                   \/ (DayOfMonth(now) # openDate) )

\* DoRotate's loop: the first number from num on whose name is free, 0 when
\* the names up to MaxNum all exist
RECURSIVE Probe(_, _, _)
Probe(names, date, num) ==
    IF num > MaxNum THEN 0
    ELSE IF RotName(date, num) \notin names THEN num
    ELSE Probe(names, date, num + 1)

\* doCheckRotate returning without its last two statements
Counted_Skipped(d) == UNCHANGED counters

\* doCheckRotate's last two statements
Counted(d) ==
    /\ curLines' = curLines + 1
    /\ curSize' = curSize + Len(d)
    /\ UNCHANGED openDate

\* the Write calls made so far
Calls ==
    SumOver(Threads, [t \in Threads |-> th[t].n + IF th[t].pc = "idle" THEN 0 ELSE 1])

\* Write(data) up to the point where it needs the sink: doCheckRotate under
\* startLock and, when a rotation is due, DoRotate up to the choice of the name
\* (Lstat of the live file, then the loop). All of it reads and writes only what
\* startLock guards, the clock and the directory.
\*   no rotation due: the write is counted, the lock released;
\*   live file gone: DoRotate returns nil at once, the write is counted;
\*   no free name: DoRotate returns an error, doCheckRotate reports it and
\*     returns without counting;
\*   otherwise the thread goes on to the rename, holding startLock.
Write(t, d) ==
    /\ th[t].pc = "idle"
    /\ Calls < MaxWrites
    /\ startLock = 0
    /\ lastDay' = DateOf(now)
    /\ LET call == [th[t] EXCEPT !.data = d, !.rot = "none", !.ino = logFile.ino,
                                 !.k = IF seed.size = 0 THEN since + 1 ELSE 0,
                                 !.cross = (~NeedRotate /\ MaxSize > 0 /\ curSize < MaxSize
                                            /\ curSize + Len(d) >= MaxSize)]
           num == Probe(DirNames(files), DateOf(now), 1)
       IN CASE ~NeedRotate ->
                 /\ Counted(d)
                 /\ since' = since + 1
                 /\ th' = [th EXCEPT ![t] = [call EXCEPT !.pc = "mw"]]
                 /\ UNCHANGED <<startLock, stderr>>
            [] NeedRotate /\ ~Exists(files, FilePath) ->
                 /\ Counted(d)
                 /\ since' = since + 1
                 /\ th' = [th EXCEPT ![t] = [call EXCEPT !.pc = "mw", !.rot = "noop"]]
                 /\ UNCHANGED <<startLock, stderr>>
            [] NeedRotate /\ Exists(files, FilePath) /\ num = 0 ->
                 /\ stderr' = stderr + 1
                 /\ since' = since + 1
                 /\ th' = [th EXCEPT ![t] = [call EXCEPT !.pc = "mw", !.rot = "exhausted"]]
                 /\ UNCHANGED <<counters, startLock>>
            [] OTHER ->
                 /\ startLock' = t
                 /\ th' = [th EXCEPT ![t] = [call EXCEPT !.pc = "rename", !.rot = "due",
                                                         !.fname = RotName(DateOf(now), num)]]
                 /\ UNCHANGED <<counters, since, stderr>>
    /\ UNCHANGED <<registry, closer, config, logFile, mwLock, files, now, sweeps, faults, seed, rotated>>

\* DoRotate from w.mw.Lock() to os.Rename: the descriptor is closed, then the
\* live file is renamed. The rename fails when the live file is gone by now, or
\* when the operating system refuses it (ok = FALSE); DoRotate then returns the
\* error with the closed descriptor still installed.
DoRotateRename(t, ok) ==
    /\ th[t].pc = "rename"
    /\ mwLock = 0
    /\ ok \/ faults < MaxFaults
    /\ faults' = IF ok THEN faults ELSE faults + 1
    /\ logFile' = [logFile EXCEPT !.open = FALSE]
    /\ IF ok /\ Exists(files, FilePath)
       THEN /\ files' = Reclaim(RenameFile(files, FilePath, th[t].fname), logFile')
            /\ mwLock' = t
            /\ rotated' = Append(rotated, th[t].fname)
            /\ th' = [th EXCEPT ![t].pc = "reopen"]
            /\ UNCHANGED <<startLock, stderr, since>>
       ELSE /\ stderr' = stderr + 1
            /\ since' = since + 1
            /\ startLock' = 0
            /\ th' = [th EXCEPT ![t].pc = "mw", ![t].rot = "renameError", ![t].fname = Unlinked]
            /\ files' = Reclaim(files, logFile')
            /\ UNCHANGED <<mwLock, rotated>>
    /\ UNCHANGED <<registry, closer, config, counters, now, sweeps, seed, lastDay>>

\* DoRotate from w.Init() to its return without the deferred w.mw.Unlock()
DoRotateInit_SinkLockKept(t) ==
    /\ th[t].pc = "reopen"
    /\ LET fs == CreateFile(files, FilePath, now)
           i == Ino(fs, FilePath)
       IN /\ files' = fs
          /\ logFile' = [ino |-> i, open |-> TRUE]
          /\ curSize' = Len(fs[i].content) + Len(th[t].data)
          /\ openDate' = DayOfMonth(now)
          /\ curLines' = SeedLines(fs[i].content) + 1
          /\ seed' = [lines |-> SeedLines(fs[i].content), size |-> Len(fs[i].content)]
          /\ th' = [th EXCEPT ![t].pc = "mw", ![t].rot = "rotated", ![t].fname = Unlinked,
                               ![t].ino = i]
    /\ sweeps' = Append(sweeps, [st |-> "new", todo |-> <<>>])
    /\ startLock' = 0
    /\ since' = 1
    /\ UNCHANGED <<registry, closer, config, mwLock, now, stderr, faults, lastDay, rotated>>

\* DoRotate from w.Init() to its return, and the rest of doCheckRotate: the live
\* path is opened again (created when absent), SetLogFile installs the new
\* descriptor, initLogFile seeds the counters, the sweep is launched, both locks
\* are released and the write is counted.
DoRotateInit(t) ==
    /\ th[t].pc = "reopen"
    /\ LET fs == CreateFile(files, FilePath, now)
           i == Ino(fs, FilePath)
       IN /\ files' = fs
          /\ logFile' = [ino |-> i, open |-> TRUE]
          /\ curSize' = Len(fs[i].content) + Len(th[t].data)
          /\ openDate' = DayOfMonth(now)
          /\ curLines' = SeedLines(fs[i].content) + 1
          /\ seed' = [lines |-> SeedLines(fs[i].content), size |-> Len(fs[i].content)]
          /\ th' = [th EXCEPT ![t].pc = "mw", ![t].rot = "rotated", ![t].fname = Unlinked,
                               ![t].ino = i]
    /\ sweeps' = Append(sweeps, [st |-> "new", todo |-> <<>>])
    /\ mwLock' = 0
    /\ startLock' = 0
    /\ since' = 1
    /\ UNCHANGED <<registry, closer, config, now, stderr, faults, lastDay, rotated>>

\* MuxWriter.Write: under the sink's lock, one append to the installed descriptor;
\* a closed descriptor makes the write fail and the payload goes nowhere.
MuxWriterWrite(t) ==
    /\ th[t].pc = "mw"
    /\ mwLock = 0
    /\ IF logFile.open
       THEN /\ files' = [files EXCEPT ![logFile.ino].content = @ \o th[t].data,
                                      ![logFile.ino].mtime = now]
            /\ th' = [th EXCEPT ![t] = [Idle EXCEPT !.err = "nil", !.n = th[t].n + 1]]
       ELSE /\ th' = [th EXCEPT ![t] = [Idle EXCEPT !.err = "closed", !.n = th[t].n + 1]]
            /\ UNCHANGED files
    /\ UNCHANGED <<registry, closer, config, counters, logFile, startLock, mwLock, now, sweeps, stderr,
                   faults, ghosts>>

\* ------------------------------------------------------------------- sweep
RECURSIVE SortNames(_)
SortNames(S) ==
    IF S = {} THEN <<>>
    ELSE LET m == CHOOSE x \in S : \A y \in S \ {x} : NameLess(x, y)
         IN <<m>> \o SortNames(S \ {m})

\* deleteOldLog's condition without the test of the name
ShouldRemove_AnyName(f, t) ==
    /\ ~f.isDir
    /\ f.mtime < t - SecPerDay * MaxDays

\* deleteOldLog's condition on one entry
ShouldRemove(f, t) ==
    /\ ~f.isDir
    /\ f.mtime < t - SecPerDay * MaxDays
    /\ HasPrefix(f.name)

\* filepath.Walk over the names it has read, in order: Lstat of the name, then
\* the walk function on it. An entry that is gone is passed with a nil
\* FileInfo: info.IsDir() panics, the deferred recover turns that into a
\* returned error, and Walk stops there. The result is the file system
\* afterwards and whether Walk reached the end.
RECURSIVE Walk(_, _, _)
Walk(fs, names, t) ==
    IF names = <<>> THEN [fs |-> fs, ok |-> TRUE]
    ELSE LET n == Head(names) IN
         IF ~Exists(fs, n) THEN [fs |-> fs, ok |-> FALSE]
         ELSE Walk(IF ShouldRemove(fs[Ino(fs, n)], t) THEN RemoveFile(fs, n) ELSE fs,
                   Tail(names), t)

\* deleteOldLog, first half: filepath.Walk reads the names of the directory, sorted
deleteOldLog(s) ==
    /\ sweeps[s].st = "new"
    /\ sweeps' = [sweeps EXCEPT ![s] = [st |-> "listed",
                                        todo |-> SortNames(DirNames(files))]]
    /\ UNCHANGED <<registry, closer, config, counters, logFile, startLock, mwLock, files, now, th, stderr,
                   faults, ghosts>>

\* deleteOldLog, second half: the walk over the names read
walkFn(s) ==
    /\ sweeps[s].st = "listed"
    /\ LET w == Walk(files, sweeps[s].todo, now)
       IN /\ files' = Reclaim(w.fs, logFile)
          /\ sweeps' = [sweeps EXCEPT ![s] = [st |-> IF w.ok THEN "done" ELSE "aborted",
                                              todo |-> <<>>]]
    /\ UNCHANGED <<registry, closer, config, counters, logFile, startLock, mwLock, now, th, stderr,
                   faults, ghosts>>

\* ------------------------------------------------------------------- clock
Tick ==
    /\ \E t \in Instants : t > now /\ now' = t
    /\ UNCHANGED <<registry, closer, config, counters, logFile, startLock, mwLock, files, th, sweeps,
                   stderr, faults, ghosts>>

Next ==
    \/ \E t \in Threads : \E d \in DataSet(t) : Write(t, d)
    \/ \E t \in Threads : \E ok \in BOOLEAN : DoRotateRename(t, ok)
    \/ \E t \in Threads : DoRotateInit(t)
    \/ \E t \in Threads : MuxWriterWrite(t)
    \/ \E s \in DOMAIN sweeps : deleteOldLog(s)
    \/ \E s \in DOMAIN sweeps : walkFn(s)
    \/ Tick

Spec == Init /\ [][Next]_vars

\* N threads that make one Write call each on a new byte-size handler whose
\* threshold one payload reaches
InitBurst ==
    /\ InitWith(NewSizeRotateHandler(BurstSize), <<>>)
    /\ closer = NoCloser
    /\ NewManager

NextBurst ==
    \/ \E t \in Threads : \E d \in DataSet(t) : th[t].n = 0 /\ Write(t, d)
    \/ \E t \in Threads : \E ok \in BOOLEAN : DoRotateRename(t, ok)
    \/ \E t \in Threads : DoRotateInit(t)
    \/ \E t \in Threads : MuxWriterWrite(t)
    \/ \E s \in DOMAIN sweeps : deleteOldLog(s)
    \/ \E s \in DOMAIN sweeps : walkFn(s)
    \/ Tick

SpecBurst == InitBurst /\ [][NextBurst]_vars

\* the steps of a thread that is inside Write
ThreadStep(t) ==
    \/ \E ok \in BOOLEAN : DoRotateRename(t, ok)
    \/ DoRotateInit(t)
    \/ MuxWriterWrite(t)

\* a handler of any mode in an empty directory, under a scheduler that runs
\* every goroutine that can take a step
InitFair ==
    /\ \E mode \in Modes : InitWith(New(mode), <<>>)
    /\ closer = NoCloser
    /\ NewManager

SpecFair == InitFair /\ [][Next]_vars /\ \A t \in Threads : WF_vars(ThreadStep(t))

\* ---------------------------------------------------------- Close and Flush
\* the descriptor the sink holds, numbered by installation: SetLogFile is called
\* once by New's Init and once by every rotation that launched a sweep
FdInstalled == Len(sweeps) + 1

\* Close() or Flush() evaluates w.mw.logFile; neither takes a lock
CloseLoad(op) ==
    /\ closer.pc = "idle"
    /\ closer.n < MaxCloses
    /\ closer' = [closer EXCEPT !.pc = op, !.fd = FdInstalled, !.n = @ + 1]
    /\ UNCHANGED <<engine, registry>>

\* the Close() or Sync() of the descriptor that was read: Close closes the
\* sink's file when the sink still holds that descriptor, and is a second Close
\* of a file a rotation has closed when it does not; Sync changes nothing
CloseAct ==
    /\ closer.pc # "idle"
    /\ closer' = [closer EXCEPT !.pc = "idle", !.fd = 0,
                                 !.closed = @ \/ closer.pc = "close",
                                 !.inside = IF closer.pc = "close"
                                            THEN {t \in Threads : th[t].pc # "idle"} ELSE @]
    /\ IF closer.pc = "close" /\ closer.fd = FdInstalled
       THEN /\ logFile' = [logFile EXCEPT !.open = FALSE]
            /\ files' = Reclaim(files, logFile')
       ELSE UNCHANGED <<logFile, files>>
    /\ UNCHANGED <<registry, config, counters, startLock, mwLock, now, th, sweeps, stderr,
                   faults, ghosts>>

\* a handler of any mode in an empty directory, with a thread that calls Close
\* and Flush beside the writers
InitClose ==
    /\ \E mode \in Modes : InitWith(New(mode), <<>>)
    /\ closer = NoCloser
    /\ NewManager

NextClose ==
    \/ \E t \in Threads : \E d \in DataSet(t) : Write(t, d)
    \/ \E t \in Threads : \E ok \in BOOLEAN : DoRotateRename(t, ok)
    \/ \E t \in Threads : DoRotateInit(t)
    \/ \E t \in Threads : MuxWriterWrite(t)
    \/ \E s \in DOMAIN sweeps : deleteOldLog(s)
    \/ \E s \in DOMAIN sweeps : walkFn(s)
    \/ Tick
    \/ \E op \in {"close", "flush"} : CloseLoad(op)
    \/ CloseAct

SpecClose == InitClose /\ [][NextClose]_vars

\* ---------------------------------------------------------------- GetLogger
\* the mode arguments GetLogger is called with
LookupModes == {"week", "size"}

\* the GetLogger calls made so far
Lookups ==
    SumOver(Threads, [c \in Threads |-> gl[c].n + IF gl[c].pc = "idle" THEN 0 ELSE 1])

\* GetLogger(name, mode) up to the point where it holds bose.mu
GetLoggerLock(c, name, mode) ==
    /\ gl[c].pc = "idle"
    /\ Lookups < MaxLookups
    /\ mu = 0
    /\ mu' = c
    /\ gl' = [gl EXCEPT ![c] = [@ EXCEPT !.pc = "locked", !.name = name, !.mode = mode,
                                         !.got = 0]]
    /\ UNCHANGED <<engine, closer, baseDir, storing, loggers, engines>>

\* the lookup with the lowercased name as the key
Cached_Lowercased(name) == loggers[ToLower(name)] # 0

\* l, ok := bose.loggers[name]
Cached(name) == loggers[name] # 0

\* what a read of bose.baseDir yields: SetLogDir stores it without a lock
BaseDirRead == IF storing = NoDir THEN {baseDir} ELSE {baseDir, storing, TornDir}

\* GetLogger under the lock: the cached engine of this name, or a new one made
\* by New at the path joined from the directory read (dir) and the lowercased
\* name, cached under the name as given; then the deferred Unlock
GetLoggerBody(c, dir) ==
    /\ gl[c].pc = "locked"
    /\ dir \in BaseDirRead
    /\ LET name == gl[c].name
           fp == Join(dir, ToLower(name) \o LogSuffix)
           hit == Cached(name)
           l == IF hit THEN loggers[name] ELSE Len(engines) + 1
       IN /\ engines' = IF hit THEN engines
                         ELSE Append(engines, [name |-> name, fp |-> fp, mode |-> gl[c].mode])
          /\ loggers' = [loggers EXCEPT ![name] = l]
          /\ gl' = [gl EXCEPT ![c] = [@ EXCEPT !.pc = "idle", !.got = l, !.n = @ + 1]]
    /\ mu' = 0
    /\ UNCHANGED <<engine, closer, baseDir, storing>>

\* SetLogDir(logDir): os.Stat, a panic when that fails, else the store begins
SetLogDir(dir) ==
    /\ storing = NoDir
    /\ dir \in ExistingDirs
    /\ dir # baseDir
    /\ storing' = dir
    /\ UNCHANGED <<engine, closer, mu, baseDir, loggers, engines, gl>>

\* the store to bose.baseDir is complete
SetLogDirStore ==
    /\ storing # NoDir
    /\ baseDir' = storing
    /\ storing' = NoDir
    /\ UNCHANGED <<engine, closer, mu, loggers, engines, gl>>

InitRegistry ==
    /\ InitWith(NewDefaultHandler, <<>>)
    /\ closer = NoCloser
    /\ NewManager

NextRegistry ==
    \/ \E c \in Threads : \E name \in LoggerNames : \E mode \in LookupModes :
          GetLoggerLock(c, name, mode)
    \/ \E c \in Threads : \E dir \in LogDirs \cup {TornDir} : GetLoggerBody(c, dir)
    \/ \E dir \in LogDirs : SetLogDir(dir)
    \/ SetLogDirStore

SpecRegistry == InitRegistry /\ [][NextRegistry]_vars

\* =================================================================== claims
\* doCheckRotate of thread t returns in this step
Returns(t) == th[t].pc # "mw" /\ th'[t].pc = "mw"
\* thread t enters Write in this step
Enters(t) == th[t].pc = "idle" /\ th'[t].pc # "idle"
\* the sink write of thread t happens in this step
Sinks(t) == th[t].pc = "mw" /\ th'[t].pc = "idle"

\* C1 as claimed: with a line-count handler of threshold N, of the writes since
\* the live file was opened empty, none before the (N+1)th triggers a rotation,
\* and the (N+1)th rotates once and is counted against the new file
\* (curLines = 1 when doCheckRotate returns).
C1_AsClaimed ==
    [][\A t \in Threads :
         (MaxLines > 0 /\ Returns(t) /\ th'[t].k >= 1) =>
            /\ (th'[t].k <= MaxLines => th'[t].rot = "none")
            /\ (th'[t].k = MaxLines + 1 => th'[t].rot = "rotated" /\ curLines' = 1)]_vars

\* C2 as claimed: with a byte-size handler of threshold S, a write triggers a
\* rotation if and only if curSize >= S before it, and a write that takes
\* curSize across S is itself appended to the file that was open when it was
\* counted.
C2_AsClaimed ==
    [][\A t \in Threads :
         /\ (MaxSize > 0 /\ Enters(t)) => ((th'[t].rot # "none") <=> (curSize >= MaxSize))
         /\ (MaxSize > 0 /\ Sinks(t) /\ th[t].cross) =>
               /\ logFile.open /\ logFile.ino = th[t].ino
               /\ files'[th[t].ino].content = files[th[t].ino].content \o th[t].data]_vars

\* a handler made by NewDailyRotateHandler
Daily == Rotatable /\ MaxLines = 0 /\ MaxSize = 0 /\ MaxDays > 0

\* C3 as claimed: with a daily handler, a write triggers a rotation if and only
\* if the date has changed since the write before it (since construction for
\* the first write), however many days went by.
C3_AsClaimed ==
    [][\A t \in Threads :
         (Daily /\ Enters(t)) => ((th'[t].rot # "none") <=> (DateOf(now) # lastDay))]_vars

\* the names the rotations of this run have used
RotatedNames == {rotated[i] : i \in DOMAIN rotated}

\* C4 as claimed: the name a rotation renames the live file to is not the name of
\* an existing file and not a name an earlier rotation used; a rotation on the
\* same date as the one before it gets the next sequence number; and when the
\* names 001..999 of the date all exist the rotation fails without renaming.
C4_AsClaimed ==
    [][/\ (rotated' # rotated) =>
            LET new == rotated'[Len(rotated')] IN
            /\ ~Exists(files, new)
            /\ new \notin RotatedNames
            /\ (rotated # <<>> /\ rotated[Len(rotated)].date = new.date)
                  => new.num = rotated[Len(rotated)].num + 1
       /\ \A t \in Threads :
            (Enters(t) /\ NeedRotate /\ Exists(files, FilePath)
               /\ \A n \in 1 .. MaxNum : Exists(files, RotName(DateOf(now), n)))
            => (th'[t].rot = "exhausted" /\ th'[t].pc = "mw")]_vars

\* the number of places where payload d stands in content c
Occurrences(c, d) ==
    Cardinality({i \in 1 .. Len(c) :
                    i + Len(d) - 1 <= Len(c) /\ SubSeq(c, i, i + Len(d) - 1) = d})

\* the number of times payload d stands in the live file and the rotated files
OnDisk(d) ==
    SumOver({i \in DOMAIN files : files[i].name.kind \in {"live", "rot"}},
            [i \in DOMAIN files |-> Occurrences(files[i].content, d)])

\* every thread has made exactly one Write call, and it has returned
EachWroteOnce == \A t \in Threads : th[t].pc = "idle" /\ th[t].n = 1

\* C5 as claimed: on a byte-size handler whose threshold is below the bytes N
\* threads write in one Write each, when all N have returned there has been
\* exactly one rotation and every payload stands exactly once in the live file
\* or a rotated file.
C5_AsClaimed ==
    (MaxSize > 0 /\ EachWroteOnce
       /\ MaxSize < SumOver(Threads, [t \in Threads |-> Len(<<96 + t, NL>>)]))
    => /\ Len(rotated) = 1
       /\ \A t \in Threads : OnDisk(<<96 + t, NL>>) = 1

\* no Write call has been made yet
JustConstructed == \A t \in Threads : th[t].pc = "idle" /\ th[t].n = 0

\* C6 as claimed: after construction the line count is the number of separators
\* in the file and the byte count is the file's size (both 0 for an empty file).
C6_AsClaimed ==
    JustConstructed =>
       /\ curLines = CountSep(files[logFile.ino].content, NL)
       /\ curSize = Len(files[logFile.ino].content)

\* the writes that doCheckRotate has counted and the sink has not yet seen
Pending == {t \in Threads : th[t].pc = "mw"}
\* the payloads in content c: every payload holds one letter of a thread
Payloads(c) == Cardinality({i \in 1 .. Len(c) : c[i] \in {96 + t : t \in Threads}})

\* C8 as claimed: whenever no rotation is under way, curSize is the size of the
\* open file and curLines the seeded lines plus the payloads in the open file,
\* each plus the writes counted and not yet appended.
C8_AsClaimed ==
    (startLock = 0 /\ logFile.open) =>
       /\ curSize = Len(files[logFile.ino].content)
                      + SumOver(Pending, [t \in Threads |-> Len(th[t].data)])
       /\ curLines = seed.lines + Payloads(files[logFile.ino].content)
                       + Cardinality(Pending)

\* C9 as claimed: whenever the sink's lock is free, so that a sink write can
\* run, the descriptor the sink holds is open.
C9_AsClaimed == (mwLock = 0) => logFile.open

\* C10 as claimed: a rotation that fails (no free name, rename error) is
\* reported on the error stream, and the Write that triggered it appends its
\* payload to the file that was open before the attempt and returns no error.
C10_AsClaimed ==
    [][\A t \in Threads :
         /\ (Returns(t) /\ th'[t].rot \in {"exhausted", "renameError"})
               => stderr' = stderr + 1
         /\ (Sinks(t) /\ th[t].rot \in {"exhausted", "renameError"})
               => /\ th'[t].err = "nil"
                  /\ files'[th[t].ino].content = files[th[t].ino].content \o th[t].data]_vars

\* a regular file whose name starts with app.log and that was last modified
\* more than MaxDays days before now
Expired(f) ==
    /\ ~f.isDir
    /\ f.name.kind \in {"live", "rot"}
    /\ now - f.mtime > MaxDays * 86400

\* C7: the files a step removes from the directory are regular files whose name
\* starts with the log's name and that are older than the retention age; a walk
\* that reaches the end of its listing has removed every such file of the
\* listing; and no step of a sweep changes a file it leaves in the directory.
C7_SweepDeletesExactlyExpired ==
    [][/\ \A i \in DOMAIN files :
            (files[i].name # Unlinked /\ files'[i].name = Unlinked) => Expired(files[i])
       /\ \A s \in DOMAIN sweeps :
            (sweeps[s].st = "listed" /\ sweeps'[s].st = "done") =>
               /\ \A j \in DOMAIN sweeps[s].todo :
                     LET n == sweeps[s].todo[j] IN
                     (Exists(files, n) /\ Expired(files[Ino(files, n)])) => ~Exists(files', n)
               /\ \A i \in DOMAIN files :
                     files'[i].name # Unlinked => files'[i] = files[i]]_vars

\* C7's case: a 30-day handler beside rotated logs made 1, 10 and 40 days before
\* construction, a directory and another program's file as old as the oldest:
\* a sweep has run to its end within the two days after construction, and of
\* these only the oldest rotated log is gone.
C7_Witness ==
    /\ MaxDays = MonthDays
    /\ now <= T0 + SecPerDay
    /\ \E s \in DOMAIN sweeps : sweeps[s].st = "done"
    /\ ~Exists(files, AgedRot(40).name)
    /\ Exists(files, AgedRot(10).name)
    /\ Exists(files, AgedRot(1).name)
    /\ Exists(files, SubDirName)
    /\ Exists(files, OtherName)

\* C11 as claimed: a sink write never executes between the close of the old
\* descriptor by a rotation and the installation of the new one (it executes
\* with the sink's lock free and the installed descriptor open), and its payload
\* lands whole in exactly one file.
C11_AsClaimed ==
    [][\A t \in Threads :
         Sinks(t) =>
            /\ mwLock = 0
            /\ logFile.open
            /\ \E i \in DOMAIN files :
                  /\ files'[i].content = files[i].content \o th[t].data
                  /\ \A j \in DOMAIN files \ {i} : files'[j] = files[j]]_vars

\* the walk of sweep s ends in this step, at the end of its listing or before
WalkEnds(s) == sweeps[s].st = "listed" /\ sweeps'[s].st # "listed"

\* C12 as claimed: when the visit of one entry fails, the walk goes on: whether
\* or not an entry of its listing is gone, a walk has removed every entry of the
\* listing that is in the directory and is a prefixed regular file older than the
\* retention age.
C12_AsClaimed ==
    [][\A s \in DOMAIN sweeps :
         WalkEnds(s) =>
            \A j \in DOMAIN sweeps[s].todo :
               LET n == sweeps[s].todo[j] IN
               (Exists(files, n) /\ Expired(files[Ino(files, n)])) => ~Exists(files', n)]_vars

\* the engines New has constructed for this name
EnginesOf(name) == {i \in DOMAIN engines : engines[i].name = name}

\* C13: at most one engine is ever constructed per name, the engine cached under
\* a name is never replaced, and every GetLogger call that has returned, from
\* whatever caller and with whatever mode, has returned the engine cached under
\* its name.
C13_OneEnginePerName ==
    [][/\ \A name \in LoggerNames :
            /\ Cardinality(EnginesOf(name)') <= 1
            /\ loggers[name] # 0 => loggers'[name] = loggers[name]
            /\ loggers'[name] # 0 => EnginesOf(name)' = {loggers'[name]}
       /\ \A c \in Threads :
            (gl'[c].pc = "idle" /\ gl'[c].n > 0) => gl'[c].got = loggers'[gl'[c].name]
       /\ \A i \in DOMAIN engines : engines'[i] = engines[i]]_vars

\* C13's case: two callers have looked the same name up with different modes and
\* hold the same engine, the only one constructed for the name.
C13_Witness ==
    \E c1, c2 \in Threads :
       /\ c1 # c2
       /\ gl[c1].pc = "idle" /\ gl[c2].pc = "idle"
       /\ gl[c1].n > 0 /\ gl[c2].n > 0
       /\ gl[c1].name = gl[c2].name
       /\ gl[c1].mode # gl[c2].mode
       /\ gl[c1].got = gl[c2].got
       /\ EnginesOf(gl[c1].name) = {gl[c1].got}

\* C14 as claimed: a Write call triggers a rotation only for the reason of its
\* handler's mode: the line count has reached the threshold of a line-count
\* handler, the byte count that of a byte-size handler, or the day differs from
\* the recorded one for a daily handler; a handler with rotation disabled never
\* triggers one.
C14_AsClaimed ==
    [][\A t \in Threads :
         (Enters(t) /\ th'[t].rot # "none") =>
            /\ Rotatable
            /\ \/ MaxLines > 0 /\ curLines >= MaxLines
               \/ MaxSize > 0 /\ curSize >= MaxSize
               \/ Daily /\ DayOfMonth(now) # openDate]_vars

\* the sink's lock is held only by the holder of the decision lock, and a thread
\* that is outside doCheckRotate holds neither
LockOrder ==
    /\ mwLock # 0 => startLock = mwLock
    /\ \A t \in Threads : th[t].pc \in {"idle", "mw"} => (startLock # t /\ mwLock # t)

\* C15: the sink's lock is only taken by a thread that holds the decision lock
\* or none (never the other way round), both locks are released on every way out
\* of doCheckRotate and DoRotate, a held lock is released in the end, and every
\* thread inside Write returns from it.
C15_LocksOrderedAndReleased ==
    /\ []LockOrder
    /\ (startLock # 0) ~> (startLock = 0)
    /\ (mwLock # 0) ~> (mwLock = 0)
    /\ \A t \in Threads : (th[t].pc # "idle") ~> (th[t].pc = "idle")

\* C15's case: a Write has returned after its rotation failed with the rename
\* while another thread was between doCheckRotate and the sink, and both locks
\* are free.
C15_Witness ==
    \E t, u \in Threads :
       /\ t # u
       /\ th[t].pc = "idle" /\ th[t].err = "closed"
       /\ th[u].pc = "idle" /\ th[u].n > 0
       /\ stderr > 0
       /\ Len(rotated) > 0
       /\ startLock = 0 /\ mwLock = 0

\* C16: a Write call that finds the rotation due and no file at the live path
\* renames nothing, creates no file, leaves the sink's descriptor, the recorded
\* day and the error stream as they are, launches no sweep and takes no lock;
\* it is counted (one line, the payload's bytes) and goes on to the sink, where
\* the payload is written to the descriptor as any other is.
C16_MissingLiveFileIsNoOp ==
    [][\A t \in Threads :
         /\ (Enters(t) /\ NeedRotate /\ FilePath \notin DirNames(files)) =>
               /\ files' = files
               /\ rotated' = rotated
               /\ logFile' = logFile
               /\ sweeps' = sweeps
               /\ stderr' = stderr
               /\ openDate' = openDate
               /\ curLines' = curLines + 1
               /\ curSize' = curSize + Len(th'[t].data)
               /\ startLock' = 0 /\ mwLock' = mwLock
               /\ th'[t].pc = "mw"
         /\ (Sinks(t) /\ th[t].rot = "noop" /\ logFile.open) =>
               /\ files'[logFile.ino].content = files[logFile.ino].content \o th[t].data
               /\ th'[t].err = "nil"]_vars

\* C16's case: the sweep of a line-count handler has removed the live file; a
\* Write then found its rotation due and the path empty, was counted past the
\* threshold, and is on its way to the sink with the descriptor still open on
\* the removed file.
C16_Witness ==
    \E t \in Threads :
       /\ th[t].pc = "mw" /\ th[t].rot = "noop"
       /\ ~Exists(files, FilePath)
       /\ logFile.open
       /\ files[logFile.ino].name = Unlinked
       /\ MaxLines > 0 /\ curLines > MaxLines

\* Close or Flush acts on the descriptor it has read in this step
Acts == closer.pc # "idle" /\ closer'.pc = "idle"

\* C17 as claimed: after Close has returned, no step of a Write call that began
\* later renames the live file or brings the sink from a closed descriptor to
\* an open one, and Close and Flush act on the descriptor the sink holds at that
\* moment.
C17_AsClaimed ==
    [][/\ \A t \in Threads :
            (closer.closed /\ t \notin closer.inside /\ th'[t] # th[t]) =>
               (rotated' = rotated /\ (logFile'.open => logFile.open))
       /\ Acts => closer.fd = FdInstalled]_vars

\* C18 as claimed: no walk of a sweep removes the file at the handler's own path
\* while the sink has it open, whatever the retention age and however long after
\* its rotation the sweep runs.
C18_AsClaimed ==
    [][\A s \in DOMAIN sweeps :
         (WalkEnds(s) /\ logFile.open /\ files[logFile.ino].name = FilePath) =>
            files'[logFile.ino].name = FilePath]_vars

\* C19 as claimed: the walk of the sweep that the s-th rotation of a line-count
\* or byte-size handler launched leaves the file of that rotation in the
\* directory, with the content it was renamed with.
C19_AsClaimed ==
    [][\A s \in DOMAIN sweeps :
         (WalkEnds(s) /\ Rotatable /\ MaxDays = 0 /\ Exists(files, rotated[s])) =>
            /\ Exists(files', rotated[s])
            /\ files'[Ino(files', rotated[s])].content
                  = files[Ino(files, rotated[s])].content]_vars

\* C20 as claimed: no two engines of the registry have the same file path.
C20_AsClaimed ==
    \A i, j \in DOMAIN engines : i # j => engines[i].fp # engines[j].fp

====
